---- MODULE Spec2Model ----
(***************************************************************************)
(* Hand-tracking demo: the gesture classifier, the two drawing canvases    *)
(* (gesture-driven and plain pen) and the bird-hit game.                    *)
(*                                                                         *)
(* Units.  A landmark coordinate is an integer number of hundredths of the *)
(* normalized range [0, 1] (so the 0.03 margin is 3).  A canvas position   *)
(* is an integer number of hundredths of a pixel: tip.x * CANVAS_WIDTH is  *)
(* then the plain product of the two integers.  Times are milliseconds.    *)
(* Math.random() draws are quarters: r stands for r / 4.                   *)
(***************************************************************************)
EXTENDS Integers, Sequences, FiniteSets, TLC

VARIABLES
    variant,            \* which program runs: "classify", "gesture", "pen", "bird"
    event,              \* the event the last handler run was given (history)
    clsIn, clsOut,      \* classifier under test: its input and its result
    pathRef, drawing,   \* drawing canvases: pathRef.current, drawing.current
    run,                \* history: tips of the one-finger frames since the Path was empty
    started, gameOver, score, timer, pop,            \* bird game: React state
    birdsRef, lastBirdSpawn, lastHandLandmarks,      \* bird game: refs
    canvasDims,                                      \* bird game: canvas size (px)
    now,                                             \* Date.now()
    live,               \* bird game: the started, gameOver the registered effects closed over
    drivers,            \* bird game: which of timer interval, tick interval, redraw request are pending
    seconds,            \* history: timer ticks since the session was started
    mounted,            \* the component is mounted
    camera, handsOpen,  \* the camera is running; the model handle is open
    infoMessage,        \* React state infoMessage (gesture canvas, bird game)
    closure             \* the infoMessage, score the registered callbacks closed over

clsVars  == <<clsIn, clsOut>>
drawVars == <<pathRef, drawing, run>>
birdVars == <<started, gameOver, score, timer, pop, birdsRef, lastBirdSpawn,
              lastHandLandmarks, canvasDims, now, live, drivers, seconds>>
feedVars == <<mounted, camera, handsOpen>>
msgVars  == <<infoMessage, closure>>
vars     == <<variant, event, clsVars, drawVars, birdVars, feedVars, msgVars>>

----------------------------------------------------------------------------
(* Program constants *)

MARGIN        == 3      \* 0.03, in hundredths
CANVAS_WIDTH  == 640
CANVAS_HEIGHT == 480
BUTTON_WIDTH  == 90
BUTTON_HEIGHT == 40
BUTTON_X      == CANVAS_WIDTH - BUTTON_WIDTH - 16
BUTTON_Y      == CANVAS_HEIGHT - BUTTON_HEIGHT - 16

\* pixels -> hundredths of a pixel
Px(p) == p * 100

----------------------------------------------------------------------------
(* Frames: what the model hands to hands.onResults *)

Tips    == <<8, 12, 16, 20>>
Tracked == {6, 8, 10, 12, 14, 16, 18, 20}

\* results.multiHandLandmarks missing or empty
NoHand == [hand |-> FALSE, len |-> 0, x8 |-> 0, y |-> [i \in Tracked |-> 0]]

\* results.multiHandLandmarks[0]: a list of len points; only the tracked
\* points' y and the index fingertip's x are read by the program
Hand(len, x8, y) == [hand |-> TRUE, len |-> len, x8 |-> x8, y |-> y]

\* landmarks[i] is defined
Present(l, i) == i < l.len

----------------------------------------------------------------------------
(* Gesture helpers *)

\* tips.every(tip => landmarks[tip].y > landmarks[tip - 2].y + 0.03):
\* "true", "false", or "throw" when a point it reaches is undefined
RECURSIVE EveryDown(_, _)
EveryDown(l, tips) ==
    IF tips = <<>> THEN "true"
    ELSE LET tip == Head(tips) IN
         IF ~Present(l, tip) \/ ~Present(l, tip - 2) THEN "throw"
         ELSE IF l.y[tip] > l.y[tip - 2] + MARGIN
              THEN EveryDown(l, Tail(tips))
              ELSE "false"

isHandClosedNoIndex(l) == EveryDown(l, Tail(Tips))

isHandClosed(l) == EveryDown(l, Tips)

isOnlyOneFingerUpNoIndex(l) ==
    IF ~Present(l, 8) THEN "throw" ELSE EveryDown(l, Tail(Tips))

isOnlyOneFingerUp(l) ==
    IF ~Present(l, 8) \/ ~Present(l, 6) THEN "throw"
    ELSE LET indexUp    == l.y[8] < l.y[6] - MARGIN
             othersDown == EveryDown(l, Tail(Tips))
         IN  IF othersDown = "throw" THEN "throw"
             ELSE IF indexUp /\ othersDown = "true" THEN "true" ELSE "false"

\* the copy in handGameUtils.ts, used by the bird game
isOnlyOneFingerUpUtil(l) ==
    IF ~Present(l, 8) \/ ~Present(l, 6) THEN "throw"
    ELSE LET indexUp    == l.y[8] < l.y[6] - MARGIN
             othersDown == EveryDown(l, Tail(Tips))
         IN  IF othersDown = "throw" THEN "throw"
             ELSE IF indexUp /\ othersDown = "true" THEN "true" ELSE "false"

\* The per-frame gesture, as the control flow of onResults decides it:
\* "error" when the callback body throws before it decides
Gesture(r) ==
    IF ~r.hand THEN "no-hand"
    ELSE IF ~Present(r, 8) THEN "error"
    ELSE LET isClosed    == isHandClosed(r)
             isOneFinger == isOnlyOneFingerUp(r)
         IN  IF isClosed = "throw" THEN "error"
             ELSE IF isOneFinger = "throw" THEN "error"
             ELSE IF isClosed = "true" THEN "closed"
             ELSE IF isOneFinger = "true" THEN "one-finger-up"
             ELSE "other"

----------------------------------------------------------------------------
(* Bounds and input sets *)

MaxPath == 3        \* longest Path the frame callback is let to build

\* a landmark list for the gesture canvas: index finger (8 over 6), middle
\* finger (12 over 10); ring and little finger folded
GestureYs(y8, y6, y12) ==
    [i \in Tracked |->
        CASE i = 8 -> y8
          [] i = 6 -> y6
          [] i = 12 -> y12
          [] i \in {16, 20} -> 60
          [] OTHER -> 50]

\* lists of 5 and 13 points are malformed (21 is the model's contract)
GestureFrames ==
    {NoHand} \cup
    {Hand(len, 50, GestureYs(y8, y6, y12)) :
        len \in {5, 13, 21}, y8 \in {40, 60}, y6 \in {50, 70}, y12 \in {40, 60}}

\* a landmark list for the pen canvas: only the fingertip matters
PenFrames ==
    {NoHand} \cup
    {Hand(len, p[1], GestureYs(p[2], 50, 60)) :
        len \in {5, 21}, p \in {<<10, 40>>, <<90, 90>>}}

\* pointer clicks, canvas-relative pixels: inside the button, on its left,
\* right, top and bottom border, far away
Clicks ==
    {[x |-> 600, y |-> 440], [x |-> 534, y |-> 440], [x |-> 624, y |-> 440],
     [x |-> 600, y |-> 424], [x |-> 600, y |-> 464], [x |-> 100, y |-> 100]}

NoClick == [x |-> 0, y |-> 0]
NoRun   == [ok |-> FALSE, tips |-> <<>>]

\* nothing painted, nothing drawn
NotPainted == ""

\* the event a handler was given, whether the handler threw, the state it
\* found (pre), the info message it painted with drawInfo and the entities
\* it drew with drawBird
Event(kind, r, at, raised, pre) ==
    [kind |-> kind, results |-> r, at |-> at, raised |-> raised, pre |-> pre,
     painted |-> NotPainted, drew |-> <<>>]

DrawPre == [path |-> pathRef, drawing |-> drawing]
BirdPre == [score |-> score, birds |-> birdsRef, pops |-> Len(pop)]

----------------------------------------------------------------------------
(* Drawing canvases *)

\* as isFingerInButton, with the border counted as inside
isFingerInButtonClosed(x, y) ==
    /\ x >= Px(BUTTON_X) /\ x <= Px(BUTTON_X + BUTTON_WIDTH)
    /\ y >= Px(BUTTON_Y) /\ y <= Px(BUTTON_Y + BUTTON_HEIGHT)

\* x, y in hundredths of a pixel
isFingerInButton(x, y) ==
    /\ x > Px(BUTTON_X) /\ x < Px(BUTTON_X + BUTTON_WIDTH)
    /\ y > Px(BUTTON_Y) /\ y < Px(BUTTON_Y + BUTTON_HEIGHT)

\* const x = tip.x * CANVAS_WIDTH; const y = tip.y * CANVAS_HEIGHT
TipPoint(l) == [x |-> l.x8 * CANVAS_WIDTH, y |-> l.y[8] * CANVAS_HEIGHT]

\* "Set gesture state and info message": drawing.current after the if chain
GestureStep(drw, isClosed, isOneFinger) ==
    IF isClosed THEN FALSE
    ELSE IF isOneFinger THEN drw
    ELSE FALSE

DrawStepAlwaysAppend(path, drw, isOneFinger, pt) ==
    IF isOneFinger
    THEN [path |-> Append(path, pt), drawing |-> TRUE]
    ELSE [path |-> path, drawing |-> FALSE]

DrawStepAlwaysRestart(path, drw, isOneFinger, pt) ==
    IF isOneFinger
    THEN [path |-> <<pt>>, drawing |-> TRUE]
    ELSE [path |-> path, drawing |-> FALSE]

\* as DrawStep, with a new stroke that does not set the drawing flag
DrawStepNoFlag(path, drw, isOneFinger, pt) ==
    IF isOneFinger
    THEN IF ~drw
         THEN [path |-> <<pt>>, drawing |-> drw]
         ELSE [path |-> Append(path, pt), drawing |-> drw]
    ELSE [path |-> path, drawing |-> FALSE]

DrawStepClearOnIdle(path, drw, isOneFinger, pt) ==
    IF isOneFinger
    THEN IF ~drw
         THEN [path |-> <<pt>>, drawing |-> TRUE]
         ELSE [path |-> Append(path, pt), drawing |-> drw]
    ELSE [path |-> <<>>, drawing |-> FALSE]

\* "Drawing logic": pathRef.current and drawing.current after it
DrawStep(path, drw, isOneFinger, pt) ==
    IF isOneFinger
    THEN IF ~drw
         THEN [path |-> <<pt>>, drawing |-> TRUE]
         ELSE [path |-> Append(path, pt), drawing |-> drw]
    ELSE [path |-> path, drawing |-> FALSE]

\* history of the current stroke
RunAfter(r, g, path2) ==
    IF g = "one-finger-up" /\ run.ok
    THEN [ok |-> TRUE, tips |-> Append(run.tips, [x |-> r.x8, y |-> r.y[8]])]
    ELSE IF path2 = <<>> THEN [ok |-> TRUE, tips |-> <<>>]
    ELSE NoRun

\* the info messages of the gesture-driven canvas
StartMessage     == "Show your hand to start drawing!"
PromptMessage    == "Show one finger to write OK and draw!"
ClosedMessage    == "Hand closed: Drawing paused. Show one finger to draw OK."
OneFingerMessage == "One finger up: \"OK\" detected. You can draw now!"

\* "Set gesture state and info message": the argument of setInfoMessage
InfoFor(isClosed, isOneFinger) ==
    IF isClosed THEN ClosedMessage
    ELSE IF isOneFinger THEN OneFingerMessage
    ELSE PromptMessage

\* a state setter called with value v: dropped once the component is unmounted
SetState(old, v) == IF mounted THEN v ELSE old

\* hands.onResults of the gesture-driven canvas.  The callback is the one
\* registered by the effect's only run (its dependency showClear is only
\* ever set to false): drawInfo paints the infoMessage of that render
onResults(r) ==
    /\ variant = "gesture"
    /\ camera /\ handsOpen
    /\ LET g == Gesture(r) IN
       /\ CASE g = "no-hand" ->
                 /\ drawing' = FALSE
                 /\ pathRef' = pathRef
                 /\ infoMessage' = SetState(infoMessage, PromptMessage)
            [] g = "error" ->
                 \* thrown before any assignment, caught by the callback's own try
                 /\ drawing' = drawing
                 /\ pathRef' = pathRef
                 /\ infoMessage' = infoMessage
            [] OTHER ->
                 LET isClosed    == g = "closed"
                     isOneFinger == isOnlyOneFingerUp(r) = "true"
                     d1  == GestureStep(drawing, isClosed, isOneFinger)
                     res == DrawStep(pathRef, d1, isOneFinger, TipPoint(r))
                 IN  /\ Len(res.path) <= MaxPath
                     /\ pathRef' = res.path
                     /\ drawing' = res.drawing
                     /\ infoMessage' =
                            SetState(infoMessage, InfoFor(isClosed, isOneFinger))
       /\ run' = RunAfter(r, g, pathRef')
       /\ event' = [Event("frame", r, NoClick, FALSE, DrawPre) EXCEPT
                       !.painted = IF g = "error" THEN NotPainted
                                   ELSE closure.infoMessage]
    /\ UNCHANGED <<variant, clsVars, birdVars, feedVars, closure>>

handleClearKeep(path) == path

\* handleClear: pathRef.current = []
handleClear(path) == <<>>

\* the pen canvas's callback body from the button test on
PenStep(path, drw, pt) ==
    LET p1 == IF isFingerInButton(pt.x, pt.y) THEN handleClear(path) ELSE path
    IN  IF ~drw
        THEN [path |-> <<pt>>, drawing |-> TRUE]
        ELSE [path |-> Append(p1, pt), drawing |-> drw]

\* hands.onResults of the pen canvas
onResultsPen(r) ==
    /\ variant = "pen"
    /\ camera /\ handsOpen
    /\ IF ~r.hand
       THEN /\ drawing' = FALSE
            /\ pathRef' = pathRef
       ELSE IF ~Present(r, 8)
       THEN /\ drawing' = drawing
            /\ pathRef' = pathRef
       ELSE LET res == PenStep(pathRef, drawing, TipPoint(r))
            IN  /\ Len(res.path) <= MaxPath
                /\ pathRef' = res.path
                /\ drawing' = res.drawing
    /\ run' = NoRun
    /\ event' = Event("frame", r, NoClick, FALSE, DrawPre)
    /\ UNCHANGED <<variant, clsVars, birdVars, feedVars, msgVars>>

\* onClick of the canvas, in both drawing canvases
handleCanvasClick(c) ==
    /\ variant \in {"gesture", "pen"}
    /\ mounted
    /\ pathRef' = IF isFingerInButton(Px(c.x), Px(c.y))
                  THEN handleClear(pathRef) ELSE pathRef
    /\ drawing' = drawing
    /\ run' = IF variant = "gesture" /\ pathRef' = <<>>
              THEN [ok |-> TRUE, tips |-> <<>>] ELSE NoRun
    /\ event' = Event("click", NoHand, c, FALSE, DrawPre)
    /\ UNCHANGED <<variant, clsVars, birdVars, feedVars, msgVars>>

----------------------------------------------------------------------------
(* Teardown *)

CleanupsKeepTick(d) == [timer |-> FALSE, tick |-> d.tick, redraw |-> FALSE]

\* the cleanups of the timer, tick and animate effects: clearInterval,
\* clearInterval, cancelAnimationFrame
Cleanups(d) == [timer |-> FALSE, tick |-> FALSE, redraw |-> FALSE]

\* the cleanup of the hand-tracking effect: camera.stop() and hands.close()
\* in one try.  When camera.stop() throws the close is skipped, and the
\* camera is left stopped or running (stays)
HandsCleanup(stopThrows, stays) ==
    IF stopThrows
    THEN [camera |-> stays, handsOpen |-> TRUE]
    ELSE [camera |-> FALSE, handsOpen |-> FALSE]

\* the component unmounts: every effect's cleanup runs.  The drawing
\* canvases have the hand-tracking effect alone; the bird game has the timer,
\* tick and animate effects as well
Unmount(stopThrows, stays) ==
    /\ variant \in {"gesture", "pen", "bird"}
    /\ mounted
    /\ mounted' = FALSE
    /\ drivers' = Cleanups(drivers)
    /\ camera' = HandsCleanup(stopThrows, stays).camera
    /\ handsOpen' = HandsCleanup(stopThrows, stays).handsOpen
    /\ event' = Event(IF stopThrows THEN "unmount-throw" ELSE "unmount",
                      NoHand, NoClick, FALSE,
                      IF variant = "bird" THEN BirdPre ELSE DrawPre)
    /\ UNCHANGED <<variant, clsVars, drawVars, started, gameOver, score, timer,
                   pop, birdsRef, lastBirdSpawn, lastHandLandmarks, canvasDims,
                   now, live, seconds, msgVars>>

----------------------------------------------------------------------------
(* Specification of the drawing canvases *)

\* after mount: the effect has started the camera and opened the model
AtMount  == mounted = TRUE /\ camera = TRUE /\ handsOpen = TRUE
IdleCls  == clsIn = NoHand /\ clsOut = "none"
IdleDraw == pathRef = <<>> /\ drawing = FALSE /\ run = NoRun
IdleMsg  == infoMessage = NotPainted /\ closure = [infoMessage |-> NotPainted, score |-> 0]
IdleBird ==
    /\ started = FALSE /\ gameOver = FALSE /\ score = 0 /\ timer = 0
    /\ pop = <<>> /\ birdsRef = <<>> /\ lastBirdSpawn = 0
    /\ lastHandLandmarks = NoHand /\ canvasDims = [width |-> 0, height |-> 0]
    /\ now = 0
    /\ live = [started |-> FALSE, gameOver |-> FALSE] /\ seconds = 0
    /\ drivers = [timer |-> FALSE, tick |-> FALSE, redraw |-> FALSE]

Init ==
    /\ variant \in {"gesture", "pen"}
    /\ pathRef = <<>>
    /\ drawing = FALSE
    /\ event = Event("init", NoHand, NoClick, FALSE, DrawPre)
    /\ run = IF variant = "gesture" THEN [ok |-> TRUE, tips |-> <<>>] ELSE NoRun
    /\ IdleCls
    /\ IdleBird
    /\ AtMount
    /\ IF variant = "gesture"
       THEN /\ infoMessage = StartMessage
            /\ closure = [infoMessage |-> infoMessage, score |-> 0]
       ELSE IdleMsg

Next ==
    \/ \E r \in GestureFrames : onResults(r)
    \/ \E r \in PenFrames : onResultsPen(r)
    \/ \E c \in Clicks : handleCanvasClick(c)
    \/ \E stopThrows, stays \in BOOLEAN : Unmount(stopThrows, stays)

Spec == Init /\ [][Next]_vars

----------------------------------------------------------------------------
(* Specification of the classifier alone: every landmark list over a grid *)
(* that holds points exactly on the margin, just beyond it and within it   *)

ClassifyYs == {0, 3, 7}

ClassifyInputs ==
    {NoHand} \cup {Hand(21, 50, y) : y \in [Tracked -> ClassifyYs]}

InitClassify ==
    /\ variant = "classify"
    /\ clsIn \in ClassifyInputs
    /\ clsOut = "none"
    /\ IdleDraw
    /\ IdleBird
    /\ AtMount
    /\ IdleMsg
    /\ event = Event("init", NoHand, NoClick, FALSE, DrawPre)

\* one frame's gesture detection
Classify ==
    /\ variant = "classify"
    /\ clsOut = "none"
    /\ clsOut' = Gesture(clsIn)
    /\ UNCHANGED <<variant, event, clsIn, drawVars, birdVars, feedVars, msgVars>>

NextClassify == Classify

SpecClassify == InitClassify /\ [][NextClassify]_vars

----------------------------------------------------------------------------
(* The classifier as the specification words it *)

Fingers == {8, 12, 16, 20}

WellFormed(r) == r.hand /\ r.len = 21
Malformed(r)  == r.hand /\ r.len # 21
WellFormedOrAbsent(r) == ~r.hand \/ r.len = 21

\* fingertip t lies below its mid-joint by more than the margin
Down(r, t) == r.y[t] - r.y[t - 2] > MARGIN
\* fingertip t lies above its mid-joint by more than the margin
Up(r, t)   == r.y[t - 2] - r.y[t] > MARGIN
\* the same, the margin itself included ("by at least 0.03")
DownAtLeast(r, t) == r.y[t] - r.y[t - 2] >= MARGIN
UpAtLeast(r, t)   == r.y[t - 2] - r.y[t] >= MARGIN

RefGesture(r) ==
    IF ~r.hand THEN "no-hand"
    ELSE IF \A t \in Fingers : Down(r, t) THEN "closed"
    ELSE IF Up(r, 8) /\ \A t \in Fingers \ {8} : Down(r, t) THEN "one-finger-up"
    ELSE "other"

RefGestureAtLeast(r) ==
    IF ~r.hand THEN "no-hand"
    ELSE IF \A t \in Fingers : DownAtLeast(r, t) THEN "closed"
    ELSE IF UpAtLeast(r, 8) /\ \A t \in Fingers \ {8} : DownAtLeast(r, t)
         THEN "one-finger-up"
    ELSE "other"

Classified == variant = "classify" /\ clsOut # "none"

\* C1: a landmark list whose four fingertips all satisfy the closed predicate
\* is classified closed and is not one-finger-up; isHandClosed and
\* isOnlyOneFingerUp are never both true, and the gesture is exactly one of
\* no-hand, closed, one-finger-up, other (one-finger-up exactly when the
\* drawing logic's isOneFinger is true).
C1_ClosedNeverOneFinger ==
    Classified =>
        /\ clsOut \in {"no-hand", "closed", "one-finger-up", "other"}
        /\ clsOut = "no-hand" <=> ~clsIn.hand
        /\ clsIn.hand =>
            /\ ~(isHandClosed(clsIn) = "true" /\ isOnlyOneFingerUp(clsIn) = "true")
            /\ (\A t \in Fingers : Down(clsIn, t)) =>
                   clsOut = "closed" /\ isOnlyOneFingerUp(clsIn) # "true"
            /\ clsOut = "one-finger-up" <=> isOnlyOneFingerUp(clsIn) = "true"

C1_Witness ==
    /\ Classified
    /\ clsIn.hand
    /\ \A t \in Fingers : Down(clsIn, t)
    /\ clsOut = "closed"

\* C2 as stated: the gesture is the reference classifier with the margin
\* read as "at least 0.03" (a fingertip exactly 0.03 below its joint counts
\* as folded).
C2_AtLeastMargin ==
    Classified => clsOut = RefGestureAtLeast(clsIn)

\* C2 amended: the gesture is the reference classifier with the margin read
\* strictly (more than 0.03); a list with a finger exactly on the margin is
\* other.  Both copies of isOnlyOneFingerUp agree with the reference.
C2_StrictMargin ==
    Classified =>
        /\ clsOut = RefGesture(clsIn)
        /\ clsIn.hand =>
            /\ isOnlyOneFingerUp(clsIn) = "true" <=>
                   (Up(clsIn, 8) /\ \A t \in Fingers \ {8} : Down(clsIn, t))
            /\ isOnlyOneFingerUpUtil(clsIn) = isOnlyOneFingerUp(clsIn)

\* every finger folded by at least the margin, one of them exactly on it
C2_Witness ==
    /\ Classified
    /\ clsIn.hand
    /\ \A t \in Fingers : DownAtLeast(clsIn, t)
    /\ \E t \in Fingers : clsIn.y[t] - clsIn.y[t - 2] = MARGIN
    /\ clsOut = "other"

----------------------------------------------------------------------------
(* The gesture-driven canvas *)

GestureFrameStep ==
    variant = "gesture" /\ event'.kind = "frame" /\ WellFormedOrAbsent(event'.results)

\* the canvas point of a frame's index fingertip
Scaled(r) == [x |-> r.x8 * 640, y |-> r.y[8] * 480]

\* C3: in the gesture-driven canvas a frame whose gesture is not
\* one-finger-up (no hand, closed, other) leaves the drawing flag false and
\* the Path exactly as it was.
C3_IdleFrameKeepsPath ==
    [][(GestureFrameStep /\ RefGesture(event'.results) # "one-finger-up")
          => (drawing' = FALSE /\ pathRef' = pathRef)]_vars

\* a closed hand seen in mid-stroke: the stroke stays, drawing stops
C3_Witness ==
    /\ variant = "gesture"
    /\ event.kind = "frame"
    /\ RefGesture(event.results) = "closed"
    /\ event.pre.drawing
    /\ Len(event.pre.path) = 2
    /\ pathRef = event.pre.path
    /\ ~drawing

\* C4: from an empty Path, N consecutive one-finger-up frames leave a Path
\* of length N whose i-th point is the canvas-scaled fingertip of the i-th
\* frame; equal consecutive points are both kept.
C4_PathIsTheFrames ==
    (variant = "gesture" /\ run.ok) =>
        /\ Len(pathRef) = Len(run.tips)
        /\ \A i \in 1..Len(run.tips) :
              pathRef[i] = [x |-> run.tips[i].x * 640, y |-> run.tips[i].y * 480]

C4_Witness ==
    /\ variant = "gesture"
    /\ run.ok
    /\ Len(run.tips) = 3
    /\ run.tips[1] = run.tips[2]
    /\ run.tips[2] # run.tips[3]
    /\ Len(pathRef) = 3

\* a pointer click inside the clear button
ClickClear == event'.kind = "click" /\ isFingerInButton(Px(event'.at.x), Px(event'.at.y))

\* a frame of the pen canvas whose fingertip lies inside the clear button
FingerClear ==
    /\ variant = "pen"
    /\ event'.kind = "frame"
    /\ WellFormed(event'.results)
    /\ isFingerInButton(Scaled(event'.results).x, Scaled(event'.results).y)

C6_OneFingerStartsOrAppends ==
    [][(GestureFrameStep /\ RefGesture(event'.results) = "one-finger-up") =>
          /\ drawing' = TRUE
          /\ pathRef' = IF drawing THEN Append(pathRef, Scaled(event'.results))
                        ELSE <<Scaled(event'.results)>>]_vars

\* a new stroke replaced an older one of two points
C6_Witness ==
    /\ variant = "gesture"
    /\ event.kind = "frame"
    /\ RefGesture(event.results) = "one-finger-up"
    /\ ~event.pre.drawing
    /\ Len(event.pre.path) = 2
    /\ pathRef = <<Scaled(event.results)>>
    /\ drawing

\* C7: a frame with a malformed landmark list is handled like a no-hand
\* frame: afterwards the drawing flag is false and the Path is unchanged.
C7_MalformedIsNoHand ==
    [][(variant = "gesture" /\ event'.kind = "frame" /\ Malformed(event'.results))
          => (drawing' = FALSE /\ pathRef' = pathRef)]_vars

----------------------------------------------------------------------------
(* The bird-hit game *)

GAME_DURATION       == 60
BIRD_RADIUS         == 28
BIRD_SPEED          == 450      \* 4.5 px, in hundredths of a pixel
BIRD_SPAWN_INTERVAL == 1200
HitTolerance        == 18       \* the 18 of "bird.radius + 18"
PopLifetime         == 700      \* a pop is drawn while younger than this

MaxNow == 3600      \* the clock stops here
MaxSeconds == 61    \* timer ticks counted in one session

\* how far the clock moves between two events
TimeSteps == {600}

\* Math.random() draws, in quarters
Rands == {0, 3}

\* the draws that give the vertical drift of a new bird
Drifts == {3}

\* window.innerWidth x window.innerHeight at mount, in pixels
Dims == {[width |-> 16, height |-> 53]}

\* frames of the bird game: no hand, one finger up, two fingers up, and a
\* malformed list of 5 points
BirdFrames ==
    {NoHand,
     Hand(21, 0, GestureYs(45, 50, 60)),
     Hand(21, 0, GestureYs(45, 50, 40)),
     Hand(5, 0, GestureYs(45, 50, 60))}

randomBirdOnEdge(width, height, r1, r2, r3) ==
    LET fromLeft == r1 * 2 > 4
    IN  [x      |-> IF fromLeft THEN 0 ELSE Px(width),
         y      |-> Px(80) + (r2 * Px(height - 160)) \div 4,
         vx     |-> IF fromLeft THEN BIRD_SPEED ELSE -BIRD_SPEED,
         vy     |-> (r3 * 2 - 4) * 15,
         radius |-> Px(BIRD_RADIUS),
         hit    |-> FALSE]

\* positions and velocities in hundredths of a pixel; r1, r2, r3 are the
\* three Math.random() draws in the order the code makes them
randomBird(width, height, r1, r2, r3) ==
    LET fromLeft == r1 * 2 > 4
    IN  [x      |-> IF fromLeft THEN -Px(BIRD_RADIUS) ELSE Px(width) + Px(BIRD_RADIUS),
         y      |-> Px(80) + (r2 * Px(height - 160)) \div 4,
         vx     |-> IF fromLeft THEN BIRD_SPEED ELSE -BIRD_SPEED,
         vy     |-> (r3 * 2 - 4) * 15,
         radius |-> Px(BIRD_RADIUS),
         hit    |-> FALSE]

\* the largest k in lo..hi with k * k <= n
RECURSIVE SqrtBetween(_, _, _)
SqrtBetween(n, lo, hi) ==
    IF lo = hi THEN lo
    ELSE LET mid == (lo + hi + 1) \div 2
         IN  IF mid * mid <= n THEN SqrtBetween(n, mid, hi)
             ELSE SqrtBetween(n, lo, mid - 1)

\* Math.sqrt(...), rounded down to a whole hundredth of a pixel: it is only
\* ever compared with a whole number by <, which the rounding does not change
dist(x1, y1, x2, y2) ==
    SqrtBetween((x1 - x2) * (x1 - x2) + (y1 - y2) * (y1 - y2), 0, 46340)

\* the forEach of the hit test: the birds afterwards and the pops the
\* setPop updaters add, in order (one setScore(s => s + 1) goes with each)
RECURSIVE HitScanFirstOnly(_, _, _, _)
HitScanFirstOnly(birds, x, y, t) ==
    IF birds = <<>> THEN [birds |-> <<>>, pops |-> <<>>]
    ELSE LET b == Head(birds) IN
         IF ~b.hit /\ dist(x, y, b.x, b.y) < b.radius + Px(HitTolerance)
         THEN [birds |-> <<[b EXCEPT !.hit = TRUE]>> \o Tail(birds),
               pops  |-> <<[x |-> b.x, y |-> b.y, value |-> 1, time |-> t]>>]
         ELSE LET rest == HitScanFirstOnly(Tail(birds), x, y, t)
              IN  [birds |-> <<b>> \o rest.birds, pops |-> rest.pops]

\* as HitScan, without the test of the hit flag
RECURSIVE HitScanAgain(_, _, _, _)
HitScanAgain(birds, x, y, t) ==
    IF birds = <<>> THEN [birds |-> <<>>, pops |-> <<>>]
    ELSE LET b    == Head(birds)
             rest == HitScanAgain(Tail(birds), x, y, t)
         IN  IF dist(x, y, b.x, b.y) < b.radius + Px(HitTolerance)
             THEN [birds |-> <<[b EXCEPT !.hit = TRUE]>> \o rest.birds,
                   pops  |-> <<[x |-> b.x, y |-> b.y, value |-> 1, time |-> t]>>
                             \o rest.pops]
             ELSE [birds |-> <<b>> \o rest.birds, pops |-> rest.pops]

\* as HitScan, with the entities it hits taken out of the list
HitScanDropHit(birds, x, y, t) ==
    [birds |-> SelectSeq(birds, LAMBDA b :
                   b.hit \/ ~(dist(x, y, b.x, b.y) < b.radius + Px(HitTolerance))),
     pops  |-> <<>>]

RECURSIVE HitScan(_, _, _, _)
HitScan(birds, x, y, t) ==
    IF birds = <<>> THEN [birds |-> <<>>, pops |-> <<>>]
    ELSE LET b    == Head(birds)
             rest == HitScan(Tail(birds), x, y, t)
         IN  IF ~b.hit /\ dist(x, y, b.x, b.y) < b.radius + Px(HitTolerance)
             THEN [birds |-> <<[b EXCEPT !.hit = TRUE]>> \o rest.birds,
                   pops  |-> <<[x |-> b.x, y |-> b.y, value |-> 1, time |-> t]>>
                             \o rest.pops]
             ELSE [birds |-> <<b>> \o rest.birds, pops |-> rest.pops]

\* hands.onResults of the bird game, called while the camera feeds an open
\* model handle.  started and gameOver are the values the callback closed
\* over when its effect last ran (live).  It has no try of its own: a throw
\* in isOnlyOneFingerUp leaves the callback (event.raised).  The setScore and
\* setPop updaters of an unmounted component are dropped.
onResultsBird(r) ==
    /\ variant = "bird"
    /\ camera /\ handsOpen
    /\ IF ~live.started \/ live.gameOver
       THEN /\ UNCHANGED <<lastHandLandmarks, birdsRef, score, pop>>
            /\ event' = Event("frame", r, NoClick, FALSE, BirdPre)
       ELSE IF ~r.hand
       THEN /\ lastHandLandmarks' = NoHand
            /\ UNCHANGED <<birdsRef, score, pop>>
            /\ event' = Event("frame", r, NoClick, FALSE, BirdPre)
       ELSE /\ lastHandLandmarks' = r
            /\ LET isOneFinger == isOnlyOneFingerUpUtil(r) IN
               IF isOneFinger = "throw"
               THEN /\ UNCHANGED <<birdsRef, score, pop>>
                    /\ event' = Event("frame", r, NoClick, TRUE, BirdPre)
               ELSE IF isOneFinger = "true"
               THEN LET x   == (100 - r.x8) * canvasDims.width
                        y   == r.y[8] * canvasDims.height
                        res == HitScan(birdsRef, x, y, now)
                    IN  /\ birdsRef' = res.birds
                        /\ score' = IF mounted THEN score + Len(res.pops) ELSE score
                        /\ pop' = IF mounted THEN pop \o res.pops ELSE pop
                        /\ event' = Event("frame", r, NoClick, FALSE, BirdPre)
               ELSE /\ UNCHANGED <<birdsRef, score, pop>>
                    /\ event' = Event("frame", r, NoClick, FALSE, BirdPre)
    /\ UNCHANGED <<variant, clsVars, drawVars, started, gameOver, timer,
                   lastBirdSpawn, canvasDims, now, live, drivers, seconds,
                   feedVars, msgVars>>

MoveBirdStill(b) == b

\* bird.x += bird.vx; bird.y += bird.vy
MoveBird(b) == [b EXCEPT !.x = b.x + b.vx, !.y = b.y + b.vy]

\* the filter of the game tick
InPlay(b, dims) ==
    /\ b.x > -Px(BIRD_RADIUS)
    /\ b.x < Px(dims.width) + Px(BIRD_RADIUS)
    /\ b.y > -Px(BIRD_RADIUS)
    /\ b.y < Px(dims.height) + Px(BIRD_RADIUS)
    /\ ~b.hit

SpawnDueAtInterval(t, last) == t - last >= BIRD_SPAWN_INTERVAL

\* Date.now() - lastBirdSpawn.current > BIRD_SPAWN_INTERVAL
SpawnDue(t, last) == t - last > BIRD_SPAWN_INTERVAL

\* birdsRef.current after the move and the filter
TickCullFilterFirst(birds, dims) ==
    LET kept == SelectSeq(birds, LAMBDA b : InPlay(b, dims))
    IN  [i \in DOMAIN kept |-> MoveBird(kept[i])]

\* as TickCull, with a filter that lets the hit entities stay
TickCullKeepHit(birds, dims) ==
    LET moved == [i \in DOMAIN birds |-> MoveBird(birds[i])]
    IN  SelectSeq(moved, LAMBDA b : InPlay([b EXCEPT !.hit = FALSE], dims))

TickCullHitOnly(birds, dims) == SelectSeq(birds, LAMBDA b : ~b.hit)

TickCull(birds, dims) ==
    LET moved == [i \in DOMAIN birds |-> MoveBird(birds[i])]
    IN  SelectSeq(moved, LAMBDA b : InPlay(b, dims))

\* the setInterval callback of the game tick
GameTick ==
    /\ variant = "bird"
    /\ drivers.tick
    /\ LET kept == TickCull(birdsRef, canvasDims) IN
       IF SpawnDue(now, lastBirdSpawn)
       THEN /\ \E r1, r2 \in Rands, r3 \in Drifts :
                 birdsRef' = Append(kept,
                     randomBird(canvasDims.width, canvasDims.height, r1, r2, r3))
            /\ lastBirdSpawn' = now
       ELSE /\ birdsRef' = kept
            /\ lastBirdSpawn' = lastBirdSpawn
    /\ event' = Event("tick", NoHand, NoClick, FALSE, BirdPre)
    /\ UNCHANGED <<variant, clsVars, drawVars, started, gameOver, score, timer,
                   pop, lastHandLandmarks, canvasDims, now, live, drivers,
                   seconds, feedVars, msgVars>>

\* birdsRef.current.forEach(bird => { if (!bird.hit) drawBird(ctx, bird) }):
\* the entities drawn
Drawn(birds) == SelectSeq(birds, LAMBDA b : ~b.hit)

\* as animate, with the hit entities taken out of the list as well
animateDropsHit ==
    /\ variant = "bird"
    /\ drivers.redraw
    /\ pop' = SelectSeq(pop, LAMBDA p : now - p.time < PopLifetime)
    /\ birdsRef' = SelectSeq(birdsRef, LAMBDA b : ~b.hit)
    /\ event' = [Event("animate", NoHand, NoClick, FALSE, BirdPre) EXCEPT
                    !.drew = Drawn(birdsRef)]
    /\ UNCHANGED <<variant, clsVars, drawVars, started, gameOver, score, timer,
                   lastBirdSpawn, lastHandLandmarks, canvasDims, now,
                   live, drivers, seconds, feedVars, msgVars>>

\* the requestAnimationFrame callback: it draws the un-hit entities, and
\* its one write to the state is the setPop that drops the pops older than
\* PopLifetime
animate ==
    /\ variant = "bird"
    /\ drivers.redraw
    /\ pop' = SelectSeq(pop, LAMBDA p : now - p.time < PopLifetime)
    /\ event' = [Event("animate", NoHand, NoClick, FALSE, BirdPre) EXCEPT
                    !.drew = Drawn(birdsRef)]
    /\ UNCHANGED <<variant, clsVars, drawVars, started, gameOver, score, timer,
                   birdsRef, lastBirdSpawn, lastHandLandmarks, canvasDims, now,
                   live, drivers, seconds, feedVars, msgVars>>

\* the render has been committed and its effects have run: the registered
\* callbacks close over the current started and gameOver.  React runs the
\* pending effects before it handles a click.
InSync == live = [started |-> started, gameOver |-> gameOver]

\* the info messages of the bird game
BirdStartMessage == "Show one finger (OK) to hit birds!"
BirdClearMessage == "Show one finger to hit birds!"

\* "Game Over! Your score: " + score
GameOverMessage(s) == "Game Over! Your score: " \o ToString(s)

handleClearGameKeepScore ==
    [score |-> score, timer |-> GAME_DURATION, gameOver |-> FALSE, birds |-> <<>>,
     infoMessage |-> BirdClearMessage]

\* handleClear of the bird game: what it leaves in score, timer, gameOver
\* and birdsRef.current
handleClearGame ==
    [score |-> 0, timer |-> GAME_DURATION, gameOver |-> FALSE, birds |-> <<>>,
     infoMessage |-> BirdClearMessage]

\* the Start Game button, shown while not started:
\* setStarted(true); handleClear()
StartGame ==
    /\ variant = "bird"
    /\ mounted /\ InSync
    /\ ~started
    /\ started' = TRUE
    /\ score' = handleClearGame.score
    /\ timer' = handleClearGame.timer
    /\ gameOver' = handleClearGame.gameOver
    /\ birdsRef' = handleClearGame.birds
    /\ infoMessage' = handleClearGame.infoMessage
    /\ seconds' = 0
    /\ event' = Event("start", NoHand, NoClick, FALSE, BirdPre)
    /\ UNCHANGED <<variant, clsVars, drawVars, pop, lastBirdSpawn,
                   lastHandLandmarks, canvasDims, now, live, drivers, feedVars,
                   closure>>

\* the Play Again button, shown while gameOver && started:
\* setStarted(false); handleClear()
PlayAgain ==
    /\ variant = "bird"
    /\ mounted /\ InSync
    /\ gameOver /\ started
    /\ started' = FALSE
    /\ score' = handleClearGame.score
    /\ timer' = handleClearGame.timer
    /\ gameOver' = handleClearGame.gameOver
    /\ birdsRef' = handleClearGame.birds
    /\ infoMessage' = handleClearGame.infoMessage
    /\ seconds' = 0
    /\ event' = Event("again", NoHand, NoClick, FALSE, BirdPre)
    /\ UNCHANGED <<variant, clsVars, drawVars, pop, lastBirdSpawn,
                   lastHandLandmarks, canvasDims, now, live, drivers, feedVars,
                   closure>>

TimerStepBelowZero(t) == [timer |-> t - 1, over |-> t <= 1]

TimerStepNoGameOver(t) ==
    IF t <= 1 THEN [timer |-> 0, over |-> FALSE] ELSE [timer |-> t - 1, over |-> FALSE]

\* the setTimer updater: the new timer, and whether it calls setGameOver(true)
TimerStep(t) ==
    IF t <= 1 THEN [timer |-> 0, over |-> TRUE] ELSE [timer |-> t - 1, over |-> FALSE]

\* the one-second setInterval callback.  score in the updater is the score
\* of the render whose effect registered the callback
TimerTick ==
    /\ variant = "bird"
    /\ drivers.timer
    /\ seconds < MaxSeconds
    /\ timer' = TimerStep(timer).timer
    /\ gameOver' = (gameOver \/ TimerStep(timer).over)
    /\ infoMessage' = IF TimerStep(timer).over
                      THEN GameOverMessage(closure.score) ELSE infoMessage
    /\ seconds' = seconds + 1
    /\ event' = Event("second", NoHand, NoClick, FALSE, BirdPre)
    /\ UNCHANGED <<variant, clsVars, drawVars, started, score, pop, birdsRef,
                   lastBirdSpawn, lastHandLandmarks, canvasDims, now, live,
                   drivers, feedVars, closure>>

\* what the bodies of the timer, tick and animate effects register when they
\* run with started = st and gameOver = go
EffectBodies(st, go) ==
    IF ~st \/ go
    THEN [timer |-> FALSE, tick |-> FALSE, redraw |-> FALSE]
    ELSE [timer |-> TRUE, tick |-> TRUE, redraw |-> TRUE]

\* React commits the render of a changed started or gameOver and runs the
\* effects that depend on them: each cleanup, then each body
Effects ==
    /\ variant = "bird"
    /\ mounted /\ ~InSync
    /\ live' = [started |-> started, gameOver |-> gameOver]
    /\ drivers' = EffectBodies(started, gameOver)
    /\ closure' = IF EffectBodies(started, gameOver).timer
                  THEN [closure EXCEPT !.score = score] ELSE closure
    /\ event' = Event("effects", NoHand, NoClick, FALSE, BirdPre)
    /\ UNCHANGED <<variant, clsVars, drawVars, started, gameOver, score, timer,
                   pop, birdsRef, lastBirdSpawn, lastHandLandmarks, canvasDims,
                   now, seconds, feedVars, infoMessage>>

\* time passes
Advance(d) ==
    /\ variant = "bird"
    /\ now + d <= MaxNow
    /\ now' = now + d
    /\ event' = Event("advance", NoHand, NoClick, FALSE, BirdPre)
    /\ UNCHANGED <<variant, clsVars, drawVars, started, gameOver, score, timer,
                   pop, birdsRef, lastBirdSpawn, lastHandLandmarks, canvasDims,
                   live, drivers, seconds, feedVars, msgVars>>

\* the bird game mounted at time t in a window of one of the sizes D
MountedIn(t, D) ==
    /\ variant = "bird"
    /\ started = FALSE
    /\ gameOver = FALSE
    /\ score = 0
    /\ timer = GAME_DURATION
    /\ pop = <<>>
    /\ birdsRef = <<>>
    /\ now = t
    /\ lastBirdSpawn = now
    /\ lastHandLandmarks = NoHand
    /\ canvasDims \in D
    /\ live = [started |-> FALSE, gameOver |-> FALSE]
    /\ drivers = EffectBodies(FALSE, FALSE)
    /\ seconds = 0
    /\ infoMessage = BirdStartMessage
    /\ closure = [infoMessage |-> infoMessage, score |-> score]
    /\ AtMount
    /\ IdleCls
    /\ IdleDraw
    /\ event = Event("init", NoHand, NoClick, FALSE, BirdPre)

\* the bird game mounted at time t
MountedAt(t) == MountedIn(t, Dims)

InitBird == MountedAt(0)

NextBird ==
    \/ StartGame
    \/ \E r \in BirdFrames : onResultsBird(r)
    \/ GameTick
    \/ animate
    \/ \E d \in TimeSteps : Advance(d)
    \/ Effects

SpecBird == InitBird /\ [][NextBird]_vars

\* the bird game with a tick interval that keeps firing while it is set
SpecBirdFair == InitBird /\ [][NextBird]_vars /\ WF_vars(GameTick)

\* A whole session, from mount through game over and Play Again to unmount.
\* The component mounts late on the model's clock, so that one bird flies.
SessionMount == MaxNow - 1800

InitSession == MountedAt(SessionMount)

NextSession ==
    \/ NextBird
    \/ TimerTick
    \/ PlayAgain
    \/ \E stopThrows, stays \in BOOLEAN : Unmount(stopThrows, stays)

SpecSession == InitSession /\ [][NextSession]_vars

\* The last second of a session: 59 timer ticks after Start Game, before
\* the first entity has flown.  The clock has 3000 ms left, enough for an
\* entity to spawn and be hit and for its pop to grow old.
PopsMount == MaxNow - 3000

InitPops ==
    /\ variant = "bird"
    /\ started = TRUE
    /\ gameOver = FALSE
    /\ score = 0
    /\ timer = TimerStep(2).timer
    /\ seconds = GAME_DURATION - timer
    /\ pop = <<>>
    /\ birdsRef = <<>>
    /\ now = PopsMount
    /\ lastBirdSpawn = now
    /\ lastHandLandmarks = NoHand
    /\ canvasDims \in Dims
    /\ live = [started |-> TRUE, gameOver |-> FALSE]
    /\ drivers = EffectBodies(TRUE, FALSE)
    /\ infoMessage = handleClearGame.infoMessage
    /\ closure = [infoMessage |-> BirdStartMessage, score |-> 0]
    /\ AtMount
    /\ IdleCls
    /\ IdleDraw
    /\ event = Event("second", NoHand, NoClick, FALSE, BirdPre)

NextPops ==
    \/ \E r \in BirdFrames : onResultsBird(r)
    \/ GameTick
    \/ animate
    \/ \E d \in TimeSteps : Advance(d)
    \/ TimerTick
    \/ Effects

\* The last second of a session, with a clock that keeps running, effects that are run once
\* they are pending, and a redraw request that fires while it is pending
SpecPopsFair ==
    /\ InitPops
    /\ [][NextPops]_vars
    /\ WF_vars(\E d \in TimeSteps : Advance(d))
    /\ WF_vars(Effects)
    /\ WF_vars(animate)

\* The bird game in windows of no width and of a small width, high enough
\* for an entity to spawn at a height inside the canvas
FreshDims == {[width |-> 0, height |-> 200], [width |-> 16, height |-> 200]}

InitFresh == MountedIn(SessionMount, FreshDims)

SpecFresh == InitFresh /\ [][NextBird]_vars

\* The three components, each from its mount to its unmount
InitTeardown == Init \/ InitSession

NextTeardown == Next \/ NextSession

SpecTeardown == InitTeardown /\ [][NextTeardown]_vars

----------------------------------------------------------------------------
(* The bird-hit game against its description *)

\* C8: in the bird-hit game no frame raises out of the frame callback, and
\* the landmark set kept for the overlay is null or a well-formed set of
\* 21 points.
C8_FramesNeverRaise ==
    variant = "bird" =>
        /\ ~event.raised
        /\ lastHandLandmarks = NoHand \/ WellFormed(lastHandLandmarks)

\* a frame evaluated while the session is running
BirdFrameStep ==
    /\ variant = "bird"
    /\ event'.kind = "frame"
    /\ started /\ ~gameOver

\* the fingertip of frame r on the mirrored canvas, in hundredths of a pixel
MirroredTip(r) ==
    [x |-> (100 - r.x8) * canvasDims.width, y |-> r.y[8] * canvasDims.height]

\* the centre of b is at Euclidean distance < radius + 18 from point p
Near(b, p) ==
    (p.x - b.x) * (p.x - b.x) + (p.y - b.y) * (p.y - b.y)
        < (b.radius + 1800) * (b.radius + 1800)

\* the entities of list birds that a fingertip at p hits
HitSet(birds, p) == {i \in DOMAIN birds : ~birds[i].hit /\ Near(birds[i], p)}

\* C9: on a frame evaluated while the session is running, a one-finger-up
\* gesture marks exactly the live entities nearer than radius + 18 to the
\* mirrored fingertip, all in that frame; the score rises by their number
\* and one pop per newly hit entity is added at that entity's position.
\* Any other gesture changes no entity, score or pop.
C9_HitsAreExactlyTheNear ==
    [][BirdFrameStep =>
          IF WellFormed(event'.results)
                /\ RefGesture(event'.results) = "one-finger-up"
          THEN LET hs == HitSet(birdsRef, MirroredTip(event'.results))
                   n  == Cardinality(hs)
               IN  /\ Len(birdsRef') = Len(birdsRef)
                   /\ \A i \in DOMAIN birdsRef :
                          birdsRef'[i] =
                              [birdsRef[i] EXCEPT !.hit = @ \/ i \in hs]
                   /\ score' = score + n
                   /\ Len(pop') = Len(pop) + n
                   /\ SubSeq(pop', 1, Len(pop)) = pop
                   /\ \A i \in hs :
                          Cardinality({k \in Len(pop) + 1 .. Len(pop') :
                                          /\ pop'[k].x = birdsRef[i].x
                                          /\ pop'[k].y = birdsRef[i].y}) =
                          Cardinality({j \in hs :
                                          /\ birdsRef[j].x = birdsRef[i].x
                                          /\ birdsRef[j].y = birdsRef[i].y})
          ELSE UNCHANGED <<birdsRef, score, pop>>]_vars

\* one frame hit two entities at once
C9_Witness ==
    /\ variant = "bird"
    /\ event.kind = "frame"
    /\ RefGesture(event.results) = "one-finger-up"
    /\ Len(event.pre.birds) = 2
    /\ \A i \in 1..2 : ~event.pre.birds[i].hit /\ birdsRef[i].hit
    /\ score = event.pre.score + 2
    /\ Len(pop) = event.pre.pops + 2

\* the centre of b lies outside the range from -radius to width + radius
\* or outside the range from -radius to height + radius, ends included in
\* the range
LeftClosedRange(b) ==
    \/ b.x < -b.radius
    \/ b.x > Px(canvasDims.width) + b.radius
    \/ b.y < -b.radius
    \/ b.y > Px(canvasDims.height) + b.radius

\* the same with the ends of the two ranges counted as outside
LeftOpenRange(b) ==
    \/ b.x <= -b.radius
    \/ b.x >= Px(canvasDims.width) + b.radius
    \/ b.y <= -b.radius
    \/ b.y >= Px(canvasDims.height) + b.radius

\* entity b one velocity further
Stepped(b) == [b EXCEPT !.x = @ + b.vx, !.y = @ + b.vy]

\* a game tick as described: every entity moves, the entities that have
\* Left the playfield or are marked hit go and the others stay in order, and
\* one new un-hit entity is appended, and the spawn time recorded, exactly
\* when more than 1200 ms have passed since the last spawn
TickAsDescribed(Left(_)) ==
    (variant = "bird" /\ event'.kind = "tick") =>
        LET moved == [i \in DOMAIN birdsRef |-> Stepped(birdsRef[i])]
            stay  == SelectSeq(moved, LAMBDA b : ~Left(b) /\ ~b.hit)
        IN  IF now - lastBirdSpawn > 1200
            THEN /\ Len(birdsRef') = Len(stay) + 1
                 /\ SubSeq(birdsRef', 1, Len(stay)) = stay
                 /\ ~birdsRef'[Len(birdsRef')].hit
                 /\ lastBirdSpawn' = now
            ELSE /\ birdsRef' = stay
                 /\ lastBirdSpawn' = lastBirdSpawn

\* C10 as stated: a game tick moves, then removes exactly the entities
\* whose centre is outside the range from -radius to width + radius or
\* from -radius to height + radius, or that are hit, then spawns one entity
\* iff the time since the last spawn exceeds 1200 ms.
C10_TickClosedBounds == [][TickAsDescribed(LeftClosedRange)]_vars

\* C10 amended: the same, with an entity whose centre is exactly on an end
\* of a range (at -radius, width + radius or height + radius) removed too.
C10_TickOpenBounds == [][TickAsDescribed(LeftOpenRange)]_vars

\* a tick removed an entity that had reached x = width + radius exactly and
\* spawned a new one
C10_Witness ==
    /\ variant = "bird"
    /\ event.kind = "tick"
    /\ Len(event.pre.birds) = 1
    /\ ~event.pre.birds[1].hit
    /\ Stepped(event.pre.birds[1]).x =
           Px(canvasDims.width) + event.pre.birds[1].radius
    /\ ~LeftClosedRange(Stepped(event.pre.birds[1]))
    /\ Len(birdsRef) = 1
    /\ birdsRef[1] # Stepped(event.pre.birds[1])
    /\ ~birdsRef[1].hit
    /\ lastBirdSpawn = now

\* a game tick that spawns
SpawnStep ==
    /\ variant = "bird"
    /\ event'.kind = "tick"
    /\ now - lastBirdSpawn > 1200

\* C11: every spawned entity begins with its whole disc outside the visible
\* bounds on its spawning edge (at x <= 0 when spawned left, at x >= width
\* when spawned right), is un-hit, has radius 28, and moves inward (vx > 0
\* from the left edge, vx < 0 from the right edge).
C11_SpawnOutsideMovingInward ==
    [][SpawnStep =>
          LET b == birdsRef'[Len(birdsRef')]
          IN  /\ ~b.hit
              /\ b.radius = 2800
              /\ \/ b.x + b.radius <= 0 /\ b.vx > 0
                 \/ b.x - b.radius >= canvasDims.width * 100 /\ b.vx < 0]_vars

\* a tick has just spawned an entity on the right edge
C11_Witness ==
    /\ variant = "bird"
    /\ event.kind = "tick"
    /\ Len(birdsRef) = Len(event.pre.birds) + 1
    /\ lastBirdSpawn = now
    /\ birdsRef[Len(birdsRef)].x > canvasDims.width * 100
    /\ birdsRef[Len(birdsRef)].vx < 0

\* the entities as randomBird can make them
Flights ==
    {randomBird(d.width, d.height, r1, r2, r3) :
        d \in Dims, r1 \in Rands, r2 \in Rands, r3 \in Drifts}

\* entity b flies on the line of flight f
OnFlight(b, f) ==
    /\ b.vx = f.vx
    /\ b.vy = f.vy
    /\ (b.x - f.x) * f.vy = (b.y - f.y) * f.vx

\* C12: no entity survives indefinitely.  While the game tick keeps firing,
\* on every line of flight the list is again and again without an entity:
\* an entity that is never hit flies on until the tick removes it.
C12_NoEntityStaysForever ==
    \A f \in Flights :
        []<>(\A i \in DOMAIN birdsRef : ~OnFlight(birdsRef[i], f))

\* the older of two entities flew out un-hit and the tick removed it; the
\* younger flies on
C12_Witness ==
    /\ variant = "bird"
    /\ event.kind = "tick"
    /\ Len(event.pre.birds) = 2
    /\ ~event.pre.birds[1].hit
    /\ LeftOpenRange(Stepped(event.pre.birds[1]))
    /\ birdsRef = <<Stepped(event.pre.birds[2])>>

----------------------------------------------------------------------------
(* The session of the bird-hit game against its description *)

\* C13: a session starts with time-remaining 60 and score 0.  After fewer
\* than 60 one-second timer ticks game-over is false and time-remaining is
\* 60 minus the number of ticks; after 60 ticks game-over is true and
\* time-remaining is 0; a timer tick never changes the score, so with no
\* hits it is still 0.
C13_SixtyTicksEndTheGame ==
    /\ [](variant = "bird" /\ started =>
            /\ seconds < 60 => ~gameOver /\ timer = 60 - seconds
            /\ seconds >= 60 => gameOver /\ timer = 0
            /\ seconds = 0 /\ event.kind = "start" => score = 0)
    /\ [][event'.kind = "second" => score' = score]_vars

\* the sixtieth tick has just ended a session without a hit
C13_Witness ==
    /\ variant = "bird"
    /\ started
    /\ event.kind = "second"
    /\ seconds = 60
    /\ event.pre.score = 0
    /\ score = 0
    /\ timer = 0
    /\ gameOver

\* C14: once game-over is set, and until a restart, no interleaving of the
\* frame callback, the game tick and the one-second timer changes the score,
\* the entity list or time-remaining.
C14_GameOverFreezes ==
    [][(variant = "bird" /\ mounted /\ gameOver /\ event'.kind # "again")
          => UNCHANGED <<score, birdsRef, timer>>]_vars

\* the teardown is complete: every cancellation of the cleanups has run
TornDown == ~mounted /\ ~camera /\ ~handsOpen

NoDriver == [timer |-> FALSE, tick |-> FALSE, redraw |-> FALSE]

\* C15: unmounting cancels the model's frame callback, the game-tick
\* interval, the one-second timer and the pending redraw request, and once
\* the teardown is complete no driver fires again: the Path, the entity list
\* and the Session State stay as they are.
C15_TeardownCancelsDrivers ==
    [][/\ event'.kind = "unmount" => TornDown' /\ drivers' = NoDriver
       /\ TornDown =>
             /\ event'.kind \notin {"frame", "tick", "second", "animate",
                                     "effects", "click", "start", "again"}
             /\ UNCHANGED <<pathRef, drawing, birdsRef, score, timer,
                            started, gameOver>>]_vars

\* the bird game was unmounted in mid-session, with an entity in flight
C15_Witness ==
    /\ variant = "bird"
    /\ event.kind = "unmount"
    /\ TornDown
    /\ started /\ ~gameOver
    /\ live.started /\ ~live.gameOver
    /\ birdsRef # <<>>
    /\ drivers = NoDriver

\* C16: when stopping the camera throws during the cleanup, the model
\* handle is closed all the same and the other drivers are cancelled.
C16_FailedStopStillCloses ==
    [][event'.kind = "unmount-throw" => ~handsOpen' /\ drivers' = NoDriver]_vars

\* C17: Start Game and Play Again reset the Session State: right after
\* either, score = 0, time-remaining = 60, game-over = false and the entity
\* list is empty; Start leaves started true, Play Again leaves it false.
C17_StartAndRestartReset ==
    [][(variant = "bird" /\ event'.kind \in {"start", "again"}) =>
          /\ score' = 0
          /\ timer' = 60
          /\ gameOver' = FALSE
          /\ birdsRef' = <<>>
          /\ started' = (event'.kind = "start")]_vars

\* Play Again after a session that ended with a score and an entity left
C17_Witness ==
    /\ variant = "bird"
    /\ event.kind = "again"
    /\ event.pre.score > 0
    /\ event.pre.birds # <<>>
    /\ score = 0 /\ timer = 60 /\ ~gameOver /\ ~started
    /\ birdsRef = <<>>

\* C18: in the bird game score >= 0, 0 <= time-remaining <= 60, and
\* game-over implies time-remaining = 0; time-remaining changes only by a
\* decrement of exactly 1 on a timer tick taken while started and not
\* game-over, or by a reset to 60.
C18_SessionInvariants ==
    /\ [](variant = "bird" =>
            /\ score >= 0
            /\ timer >= 0 /\ timer <= 60
            /\ gameOver => timer = 0)
    /\ [][(variant = "bird" /\ timer' # timer) =>
              \/ /\ event'.kind = "second"
                 /\ started /\ ~gameOver
                 /\ timer' = timer - 1
              \/ timer' = 60]_vars

\* half-way through a session in which an entity was hit
C18_Witness ==
    /\ variant = "bird"
    /\ event.kind = "second"
    /\ started /\ ~gameOver
    /\ seconds = 30
    /\ timer = 30
    /\ score = 1

\* C19 as stated: only the frame callback changes the Path, and only the
\* game tick changes the entity list.
C19_OneWriterEach ==
    [][/\ pathRef' # pathRef => event'.kind = "frame"
       /\ birdsRef' # birdsRef => event'.kind = "tick"]_vars

\* list new is list old with some un-hit entities marked hit
OnlyMarksHit(old, new) ==
    /\ Len(new) = Len(old)
    /\ \A i \in DOMAIN old :
          \/ new[i] = old[i]
          \/ ~old[i].hit /\ new[i] = [old[i] EXCEPT !.hit = TRUE]

\* C19 amended: the Path is changed by the frame callback, and emptied by a
\* click on the clear button; the entity list is changed by the game tick
\* (positions and membership), by the frame callback (hit flags alone) and
\* emptied by Start Game and Play Again.
C19_WritersOfPathAndEntities ==
    [][/\ pathRef' # pathRef =>
             \/ event'.kind = "frame"
             \/ event'.kind = "click" /\ pathRef' = <<>>
       /\ birdsRef' # birdsRef =>
             \/ event'.kind = "tick"
             \/ event'.kind = "frame" /\ OnlyMarksHit(birdsRef, birdsRef')
             \/ event'.kind \in {"start", "again"} /\ birdsRef' = <<>>]_vars

\* the frame callback has marked an entity hit
C19_Witness ==
    /\ variant = "bird"
    /\ event.kind = "frame"
    /\ Len(birdsRef) = 1
    /\ ~event.pre.birds[1].hit
    /\ birdsRef[1].hit

\* C20: one run of animate leaves the entity list and the Session State
\* (score, time-remaining, started, game-over) as they are.
C20_AnimateIsAProjection ==
    [][(variant = "bird" /\ event'.kind = "animate") =>
          UNCHANGED <<birdsRef, score, timer, started, gameOver>>]_vars

\* animate ran over a list holding a hit entity and dropped an old pop
C20_Witness ==
    /\ variant = "bird"
    /\ event.kind = "animate"
    /\ \E i \in DOMAIN birdsRef : birdsRef[i].hit
    /\ birdsRef = event.pre.birds
    /\ Len(pop) < event.pre.pops
    /\ score = event.pre.score

----------------------------------------------------------------------------
(* Pops, hit entities and messages *)

\* the creation times a pop can have and still grow old on the model's clock
PopTimes ==
    {t \in {PopsMount + k * d : k \in 0..5, d \in TimeSteps} : t + 700 <= MaxNow}

\* a pop created at time t is in the list
PopOf(t) == \E i \in DOMAIN pop : pop[i].time = t

\* C21: every pop is removed once it is older than 700 ms.  A redraw leaves
\* no pop of 700 ms or more in the list, and a pop created by a hit is
\* eventually out of the list of the mounted game, also when the session
\* reaches game-over before the pop has expired.
C21_PopsExpire ==
    /\ [][(variant = "bird" /\ event'.kind = "animate") =>
              \A i \in DOMAIN pop' : now' - pop'[i].time < 700]_vars
    /\ \A t \in PopTimes : PopOf(t) ~> (~mounted \/ ~PopOf(t))

\* the pop of entity b is in the list and younger than 700 ms
YoungPop(b) ==
    \E k \in DOMAIN pop :
        pop[k].x = b.x /\ pop[k].y = b.y /\ now - pop[k].time < 700

\* the entities a tick keeps, one velocity further, when it keeps those
\* that Stay
KeptBy(Stay(_)) ==
    LET idx == SelectSeq([i \in DOMAIN birdsRef |-> i], Stay)
    IN  [k \in DOMAIN idx |-> Stepped(birdsRef[idx[k]])]

\* a tick leaves the entities that Stay, followed by the new entity when it
\* spawns one; no other step takes an entity out of the list, Emptying
\* steps apart
RemovalRule(Stay(_), Emptying) ==
    variant = "bird" =>
        IF event'.kind = "tick"
        THEN LET kept == KeptBy(Stay)
             IN  /\ Len(birdsRef') =
                        Len(kept) + IF now - lastBirdSpawn > 1200 THEN 1 ELSE 0
                 /\ SubSeq(birdsRef', 1, Len(kept)) = kept
        ELSE \/ Len(birdsRef') = Len(birdsRef)
             \/ event'.kind \in Emptying /\ birdsRef' = <<>>

\* a hit entity stays while its pop is young; an un-hit entity stays while
\* it is inside the bounds
StaysAsStated(i) ==
    IF birdsRef[i].hit THEN YoungPop(birdsRef[i])
    ELSE ~LeftOpenRange(Stepped(birdsRef[i]))

\* a hit entity never stays; an un-hit entity stays while it is inside the
\* bounds
StaysUnhitInside(i) ==
    ~birdsRef[i].hit /\ ~LeftOpenRange(Stepped(birdsRef[i]))

Describes(g) ==
    CASE g = "closed" -> "Hand closed: Drawing paused. Show one finger to draw OK."
      [] g = "one-finger-up" -> "One finger up: \"OK\" detected. You can draw now!"
      [] OTHER -> "Show one finger to write OK and draw!"

\* C23: in the gesture-driven canvas the info message painted by a frame's
\* drawInfo call describes that frame's gesture: the 'Hand closed' message
\* for closed, the 'One finger up' message for one-finger-up, the 'Show one
\* finger' prompt for no hand and for any other gesture.
C23_PaintedMessageIsTheGesture ==
    [][GestureFrameStep =>
          event'.painted = Describes(RefGesture(event'.results))]_vars

\* the entities a step marks hit
NewlyHit == {i \in DOMAIN birdsRef : ~birdsRef[i].hit /\ birdsRef'[i].hit}

\* C24: each entity is scored at most once.  A hit flag that is true stays
\* true for as long as the entity is in the list; a frame raises the score
\* and adds pops only for the entities it newly marks, none for an entity
\* already hit; the render step draws no hit entity; and a game tick leaves
\* no hit entity in the list.
C24_ScoredAtMostOnce ==
    [][variant = "bird" =>
          /\ event'.kind \notin {"tick", "start", "again"} =>
                /\ Len(birdsRef') = Len(birdsRef)
                /\ \A i \in DOMAIN birdsRef : birdsRef[i].hit => birdsRef'[i].hit
          /\ event'.kind = "frame" =>
                /\ score' = score + Cardinality(NewlyHit)
                /\ Len(pop') = Len(pop) + Cardinality(NewlyHit)
          /\ event'.kind = "animate" =>
                \A k \in DOMAIN event'.drew : ~event'.drew[k].hit
          /\ event'.kind = "tick" =>
                \A k \in DOMAIN birdsRef' : ~birdsRef'[k].hit]_vars

\* a one-finger-up frame found an entity already hit under the fingertip
\* and left the score and the pops as they were
C24_Witness ==
    /\ variant = "bird"
    /\ event.kind = "frame"
    /\ live.started /\ ~live.gameOver
    /\ RefGesture(event.results) = "one-finger-up"
    /\ \E i \in DOMAIN birdsRef :
          /\ event.pre.birds[i].hit
          /\ Near(birdsRef[i], MirroredTip(event.results))
    /\ score = event.pre.score
    /\ score >= 1
    /\ Len(pop) = event.pre.pops

\* C25: in every state of the mounted bird game there is at most one tick
\* interval, one timer interval, one pending redraw request and one
\* camera/model pair (the model has one slot for each), and neither
\* interval nor the redraw request is active while the session is not
\* started or is game-over.
C25_DriversOnlyWhileRunning ==
    (variant = "bird" /\ mounted) =>
        /\ camera <=> handsOpen
        /\ (~started \/ gameOver) =>
              ~drivers.tick /\ ~drivers.timer /\ ~drivers.redraw

----------------------------------------------------------------------------
(* Frames and clicks on the gesture-driven canvas *)

\* after a frame the drawing flag is true exactly when the frame was
\* one-finger-up, and then the Path ends in the frame's fingertip
FrameSetsFlagAndTip ==
    GestureFrameStep =>
        /\ drawing' <=> RefGesture(event'.results) = "one-finger-up"
        /\ drawing' =>
              /\ pathRef' # <<>>
              /\ pathRef'[Len(pathRef')] = Scaled(event'.results)

GestureClickStep == variant = "gesture" /\ event'.kind = "click"

StrictlyInside(c) == c.x > 534 /\ c.x < 534 + 90 /\ c.y > 424 /\ c.y < 424 + 40

\* C28: a pointer click that is not strictly inside the clear-button
\* rectangle (the border counts as outside) leaves the Path and the drawing
\* flag unchanged; a click strictly inside empties the Path and leaves the
\* drawing flag unchanged.
C28_ClickClearsOnlyInside ==
    [][(variant \in {"gesture", "pen"} /\ event'.kind = "click") =>
          /\ drawing' = drawing
          /\ StrictlyInside(event'.at) => pathRef' = <<>>
          /\ ~StrictlyInside(event'.at) => pathRef' = pathRef]_vars

\* a click on the bottom border of the button left a stroke of two points
\* and the drawing flag as they were
C28_Witness ==
    /\ variant \in {"gesture", "pen"}
    /\ event.kind = "click"
    /\ event.at = [x |-> 600, y |-> 464]
    /\ Len(event.pre.path) = 2
    /\ pathRef = event.pre.path
    /\ event.pre.drawing
    /\ drawing

----------------------------------------------------------------------------
(* A new entity's first tick *)

\* entity b is un-hit and where randomBird put it, on the left or the right
\* spawning edge, at a height inside the canvas
Fresh(b) ==
    /\ ~b.hit
    /\ \/ b.x = -b.radius /\ b.vx > 0
       \/ b.x = canvasDims.width * 100 + b.radius /\ b.vx < 0
    /\ b.y >= 0 /\ b.y <= canvasDims.height * 100

\* C29: a freshly spawned entity is not culled before it has entered the
\* playfield: an un-hit entity that the last tick pushed at x = -radius or
\* x = width + radius, at a height inside the canvas, is still in the list,
\* one velocity further, after the next tick, whatever the canvas width.
C29_FreshEntitySurvivesATick ==
    [][(variant = "bird" /\ event'.kind = "tick") =>
          \A i \in DOMAIN birdsRef :
              Fresh(birdsRef[i]) =>
                  \E k \in DOMAIN birdsRef' : birdsRef'[k] = Stepped(birdsRef[i])]_vars

\* on a canvas of width 0 a tick moved an entity from its spawning place on
\* the right edge into the list's next state
C29_Witness ==
    /\ variant = "bird"
    /\ event.kind = "tick"
    /\ canvasDims.width = 0
    /\ Len(event.pre.birds) = 1
    /\ Fresh(event.pre.birds[1])
    /\ event.pre.birds[1].vx < 0
    /\ birdsRef = <<Stepped(event.pre.birds[1])>>

----------------------------------------------------------------------------
(* The message at the end of a session *)

\* C30: the info message the one-second timer sets when it ends the
\* session is 'Game Over! Your score: ' followed by the score the state
\* holds at that moment, whatever hits the session has seen.
C30_GameOverMessageHasFinalScore ==
    [][(variant = "bird" /\ event'.kind = "second" /\ ~gameOver /\ gameOver') =>
          infoMessage' = "Game Over! Your score: " \o ToString(score')]_vars

====
